---------------------------- MODULE Spec2Model ----------------------------
(***************************************************************************)
(* The declarative finite state machine of fsm.py: a machine definition    *)
(* (initial_state, transitions, decorated callables), the construction of  *)
(* its transition lookup table, and FiniteStateMachine.transition().       *)
(***************************************************************************)
EXTENDS Naturals, Sequences, FiniteSets, TLC

(***************************************************************************)
(* Bounds of the model.                                                    *)
(***************************************************************************)
\* longest transitions list of a machine definition
MaxTransitions == 2
\* most decorated callables (actions and guards together) of a definition
MaxCallables == 2
\* transition() calls in flight on one instance, where callers do not serialize
MaxCalls == 2

(***************************************************************************)
(* The values machine definitions are drawn from.                          *)
(***************************************************************************)
\* state names used in transitions lists
StateNames == {"off", "on"}
\* a name no transitions list holds
Bogus == "bogus"
AllNames == StateNames \cup {Bogus}

\* sequences over S of length at most n
SeqUpTo(S, n) == UNION {[1..k -> S] : k \in 0..n}

Range(f) == {f[i] : i \in DOMAIN f}

\* A method after its decorator ran: the metadata Action.__call__ and
\* Guard.__call__ attach to the function, and the body of the method.  A guard
\* carries no flags.  The body "any" stands for any method that returns and
\* touches nothing the model keeps; "mark" is an action that writes the name of
\* its state to self.indicator.
CallablesWith(states, bodies) ==
    [kind : {"action"}, state : states, on_entry : BOOLEAN, on_exit : BOOLEAN, body : bodies]
        \cup [kind : {"guard"}, state : states, on_entry : {FALSE}, on_exit : {FALSE},
               body : bodies]
\* the callables among them that the builder binds to a role of their state:
\* guards, and actions whose on_entry or on_exit flag is set
BoundCallablesWith(states, bodies) ==
    {c \in CallablesWith(states, bodies) : c.kind = "guard" \/ c.on_entry \/ c.on_exit}
ActionCallables == {c \in CallablesWith(AllNames, {"any"}) : c.kind = "action"}
GuardCallables == {c \in CallablesWith(AllNames, {"any"}) : c.kind = "guard"}
Callables == ActionCallables \cup GuardCallables

\* What a guard may hand back: True, False, or a value that is no bool,
\* truthy (1, "yes") or falsy (None, 0).
GuardReturns == [isbool : BOOLEAN, truthy : BOOLEAN]
PyTrue == [isbool |-> TRUE, truthy |-> TRUE]
PyFalse == [isbool |-> TRUE, truthy |-> FALSE]
\* what an action hands back, and the slot of a trace entry that holds it
PyNone == [isbool |-> FALSE, truthy |-> FALSE]
\* None where a name or an argument is expected
None == "None"

VARIABLES
    declared,                 \* the class attributes the class body sets
    transitions,              \* class attribute: list of (begin, end) pairs
    initial_state,            \* class attribute
    callables,                \* decorated methods, in the order dir() lists them
    attributes,               \* instance attributes the callables read and write
    machine,                  \* "declared", "constructed" or "failed"
    error,                    \* why construction failed, "none" otherwise
    __fsm_transition_table__, \* self.__fsm_transition_table__
    __state__,                \* self.__state__
    frames,                   \* transition() calls in flight
    last                      \* how the last completed transition() call ended

vars == <<declared, transitions, initial_state, callables, attributes, machine, error,
          __fsm_transition_table__, __state__, frames, last>>

definition == <<declared, transitions, initial_state, callables>>
instance == <<machine, error, __fsm_transition_table__>>

(***************************************************************************)
(* Construction: __get_states__, __get_actions__, __get_guards__,          *)
(* __create_state_map__, __create_lookup_table__, __init__.                *)
(***************************************************************************)
\* a dict key that is not set
NoCallable == 0

\* the empty dict() of a state, before anything is attached
EmptyStateRecord ==
    [on_entry |-> NoCallable, on_exit |-> NoCallable, guard |-> NoCallable]

\* `x not in states` for a list of states
AppendIfNew(states, x) == IF x \in Range(states) THEN states ELSE Append(states, x)

\* the loop of __get_states__ over the first n pairs
RECURSIVE StatesOf(_, _)
StatesOf(trans, n) ==
    IF n = 0 THEN <<>>
    ELSE AppendIfNew(AppendIfNew(StatesOf(trans, n - 1), trans[n][1]), trans[n][2])

\* __get_states__: raises when the list is empty
__get_states__(trans) ==
    IF Len(trans) = 0
    THEN [error |-> "NoTransitions", states |-> <<>>]
    ELSE [error |-> "none", states |-> StatesOf(trans, Len(trans))]

\* __get_actions__ / __get_guards__: the indices, in dir() order, of the
\* callables carrying __fsm_action__ / __fsm_guard__
__get_actions__(cs) == SelectSeq([i \in 1..Len(cs) |-> i], LAMBDA i : cs[i].kind = "action")
__get_guards__(cs) == SelectSeq([i \in 1..Len(cs) |-> i], LAMBDA i : cs[i].kind = "guard")

\* AttachAction, but a callable holding neither role is passed over before its
\* state is looked at
AttachAction_RoleFirst(acc, cs, i, states) ==
    LET state_name == cs[i].state
    IN  IF acc.error # "none" THEN acc
        ELSE IF ~cs[i].on_entry /\ ~cs[i].on_exit THEN acc
        ELSE IF state_name \notin Range(states)
        THEN [acc EXCEPT !.error = "UndeclaredActionState"]
        ELSE IF acc.state_map[state_name].on_entry # NoCallable /\ cs[i].on_entry
        THEN [acc EXCEPT !.error = "DuplicateOnEntry"]
        ELSE IF acc.state_map[state_name].on_exit # NoCallable /\ cs[i].on_exit
        THEN [acc EXCEPT !.error = "DuplicateOnExit"]
        ELSE [acc EXCEPT
                !.state_map[state_name].on_entry = IF cs[i].on_entry THEN i ELSE @,
                !.state_map[state_name].on_exit = IF cs[i].on_exit THEN i ELSE @]

\* AttachAction, but a role that is taken is left to the action that got it
\* first, and no error is raised
AttachAction_FirstWins(acc, cs, i, states) ==
    LET state_name == cs[i].state
        state == acc.state_map[state_name]
        after_entry ==
            IF state.on_entry = NoCallable /\ cs[i].on_entry
            THEN [state EXCEPT !.on_entry = i] ELSE state
        after_exit ==
            IF after_entry.on_exit = NoCallable /\ cs[i].on_exit
            THEN [after_entry EXCEPT !.on_exit = i] ELSE after_entry
    IN  IF acc.error # "none" THEN acc
        ELSE IF state_name \notin Range(states)
        THEN [acc EXCEPT !.error = "UndeclaredActionState"]
        ELSE [error |-> "none",
              state_map |-> [acc.state_map EXCEPT ![state_name] = after_exit]]

\* one pass of the action loop of __create_state_map__ for callable i;
\* acc is [error, state_map]
AttachAction(acc, cs, i, states) ==
    LET state_name == cs[i].state
        state == acc.state_map[state_name]
        entry_clash == state.on_entry # NoCallable /\ cs[i].on_entry
        after_entry ==
            IF state.on_entry = NoCallable /\ cs[i].on_entry
            THEN [state EXCEPT !.on_entry = i] ELSE state
        exit_clash == after_entry.on_exit # NoCallable /\ cs[i].on_exit
        after_exit ==
            IF after_entry.on_exit = NoCallable /\ cs[i].on_exit
            THEN [after_entry EXCEPT !.on_exit = i] ELSE after_entry
    IN  IF acc.error # "none" THEN acc
        ELSE IF state_name \notin Range(states)
        THEN [acc EXCEPT !.error = "UndeclaredActionState"]
        ELSE IF entry_clash
        THEN [acc EXCEPT !.error = "DuplicateOnEntry"]
        ELSE IF exit_clash
        THEN [error |-> "DuplicateOnExit",
              state_map |-> [acc.state_map EXCEPT ![state_name] = after_entry]]
        ELSE [error |-> "none",
              state_map |-> [acc.state_map EXCEPT ![state_name] = after_exit]]

\* AttachGuard, but a later guard of a state replaces the earlier one
AttachGuard_Overwrite(acc, cs, i, states) ==
    LET state_name == cs[i].state
    IN  IF acc.error # "none" THEN acc
        ELSE IF state_name \notin Range(states)
        THEN [acc EXCEPT !.error = "UndeclaredGuardState"]
        ELSE [acc EXCEPT !.state_map[state_name].guard = i]

\* one pass of the guard loop of __create_state_map__ for callable i
AttachGuard(acc, cs, i, states) ==
    LET state_name == cs[i].state
    IN  IF acc.error # "none" THEN acc
        ELSE IF state_name \notin Range(states)
        THEN [acc EXCEPT !.error = "UndeclaredGuardState"]
        ELSE IF acc.state_map[state_name].guard # NoCallable
        THEN [acc EXCEPT !.error = "DuplicateGuard"]
        ELSE [acc EXCEPT !.state_map[state_name].guard = i]

RECURSIVE AttachActions(_, _, _, _, _)
AttachActions(acc, cs, actions, n, states) ==
    IF n = 0 THEN acc
    ELSE AttachAction(AttachActions(acc, cs, actions, n - 1, states), cs, actions[n], states)

RECURSIVE AttachGuards(_, _, _, _, _)
AttachGuards(acc, cs, guards, n, states) ==
    IF n = 0 THEN acc
    ELSE AttachGuard(AttachGuards(acc, cs, guards, n - 1, states), cs, guards[n], states)

\* __create_state_map__: every state gets a record, then the actions are
\* attached, then the guards; the first failure ends it
__create_state_map__(cs, actions, guards, states) ==
    LET empty == [error |-> "none",
                  state_map |-> [s \in Range(states) |-> EmptyStateRecord]]
        with_actions == AttachActions(empty, cs, actions, Len(actions), states)
    IN  AttachGuards(with_actions, cs, guards, Len(guards), states)

\* AddTransition, but the row of begin is started afresh at every pair
AddTransition_FreshRow(lookup_table, state_map, begin, end) ==
    [b \in DOMAIN lookup_table \cup {begin} |->
        IF b = begin
        THEN [e \in {end} |-> [beginning_state |-> state_map[begin],
                               end_state |-> state_map[end]]]
        ELSE lookup_table[b]]

\* one pass of the loop of __create_lookup_table__ for the pair (begin, end)
AddTransition(lookup_table, state_map, begin, end) ==
    LET known == begin \in DOMAIN lookup_table
        old == IF known THEN lookup_table[begin] ELSE <<>>
        row == IF known /\ end \in DOMAIN old
               THEN old
               ELSE [e \in (IF known THEN DOMAIN old ELSE {}) \cup {end} |->
                        IF known /\ e \in DOMAIN old /\ e # end THEN old[e]
                        ELSE [beginning_state |-> state_map[begin],
                              end_state |-> state_map[end]]]
    IN  [b \in DOMAIN lookup_table \cup {begin} |->
            IF b = begin THEN row ELSE lookup_table[b]]

RECURSIVE LookupTableOf(_, _, _)
LookupTableOf(trans, n, state_map) ==
    IF n = 0 THEN <<>>
    ELSE AddTransition(LookupTableOf(trans, n - 1, state_map), state_map,
                       trans[n][1], trans[n][2])

\* __create_lookup_table__: [error, lookup_table]
__create_lookup_table__(trans, cs) ==
    LET actions == __get_actions__(cs)
        guards == __get_guards__(cs)
        got == __get_states__(trans)
        built == __create_state_map__(cs, actions, guards, got.states)
    IN  IF got.error # "none" THEN [error |-> got.error, lookup_table |-> <<>>]
        ELSE IF built.error # "none" THEN [error |-> built.error, lookup_table |-> <<>>]
        ELSE [error |-> "none",
              lookup_table |-> LookupTableOf(trans, Len(trans), built.state_map)]

(***************************************************************************)
(* The machine definitions a class body can hold, and the instance before  *)
(* FiniteStateMachine() is called on it.                                   *)
(***************************************************************************)
Unset == "<unset>"

\* no transition() call has completed since the last one began
NoCall == [outcome |-> "none", to |-> Unset, before |-> Unset, trace |-> <<>>,
           after_failure |-> FALSE, returned |-> None, left |-> Unset,
           overlapped |-> FALSE, triggered_event_description |-> None,
           transition_tailored_arguments |-> None]

\* an instance on which no attribute was set from outside
NoAttributes == [electricity |-> Unset, indicator |-> Unset]

\* the instance before FiniteStateMachine() is called
NotConstructed ==
    /\ machine = "declared"
    /\ error = "none"
    /\ __fsm_transition_table__ = <<>>
    /\ __state__ = Unset
    /\ frames = <<>>
    /\ last = NoCall

Init ==
    /\ declared = {"initial_state", "transitions"}
    /\ transitions \in SeqUpTo(StateNames \X StateNames, MaxTransitions)
    /\ initial_state \in AllNames
    /\ callables \in SeqUpTo(Callables, MaxCallables)
    /\ attributes = NoAttributes
    /\ NotConstructed

\* __init__, but the machine starts in the begin state of the first transition
__init___FirstTransition ==
    /\ machine = "declared"
    /\ LET made == __create_lookup_table__(transitions, callables)
       IN  IF "transitions" \notin declared
           THEN /\ machine' = "failed"
                /\ error' = "AttributeError"
                /\ UNCHANGED <<__fsm_transition_table__, __state__>>
           ELSE IF made.error # "none"
           THEN /\ machine' = "failed"
                /\ error' = made.error
                /\ UNCHANGED <<__fsm_transition_table__, __state__>>
           ELSE IF "initial_state" \notin declared
           THEN /\ machine' = "failed"
                /\ error' = "AttributeError"
                /\ UNCHANGED <<__fsm_transition_table__, __state__>>
           ELSE /\ machine' = "constructed"
                /\ error' = "none"
                /\ __fsm_transition_table__' = made.lookup_table
                /\ __state__' = transitions[1][1]
    /\ UNCHANGED <<definition, attributes, frames, last>>

\* FiniteStateMachine.__init__: build the table, then set the state.
\* self.transitions is first read in __get_states__ (nothing before it can
\* raise) and self.initial_state once the table is built; an attribute the
\* class body does not set raises AttributeError there.
__init__ ==
    /\ machine = "declared"
    /\ LET made == __create_lookup_table__(transitions, callables)
       IN  IF "transitions" \notin declared
           THEN /\ machine' = "failed"
                /\ error' = "AttributeError"
                /\ UNCHANGED <<__fsm_transition_table__, __state__>>
           ELSE IF made.error # "none"
           THEN /\ machine' = "failed"
                /\ error' = made.error
                /\ UNCHANGED <<__fsm_transition_table__, __state__>>
           ELSE IF "initial_state" \notin declared
           THEN /\ machine' = "failed"
                /\ error' = "AttributeError"
                /\ UNCHANGED <<__fsm_transition_table__, __state__>>
           ELSE /\ machine' = "constructed"
                /\ error' = "none"
                /\ __fsm_transition_table__' = made.lookup_table
                /\ __state__' = initial_state
    /\ UNCHANGED <<definition, attributes, frames, last>>

\* FiniteStateMachine.state
state == __state__

(***************************************************************************)
(* The bodies of the callables.                                            *)
(***************************************************************************)
\* the value of a bool attribute, held by its name
BoolValue(name) == IF name = "True" THEN PyTrue ELSE PyFalse

\* check_electricity, but a bulb whose flag was never set is let through
check_electricity_UnsetPasses(attrs) ==
    IF attrs.electricity = Unset THEN PyTrue ELSE BoolValue(attrs.electricity)

\* LightBulb.check_electricity: the flag if the bulb has one, else False
check_electricity(attrs) ==
    IF attrs.electricity = Unset THEN PyFalse ELSE BoolValue(attrs.electricity)

\* LightBulb.turn_off, turn_on, smash
turn_off(attrs) == [attrs EXCEPT !.indicator = "dim"]
turn_on(attrs) == [attrs EXCEPT !.indicator = "lit"]
smash(attrs) == [attrs EXCEPT !.indicator = "broken"]

\* what guard k may hand back
AskGuard(k) ==
    IF callables[k].body = "check_electricity" THEN {check_electricity(attributes)}
    ELSE GuardReturns

\* the instance attributes once action k has run
RunAction(k) ==
    CASE callables[k].body = "turn_off" -> turn_off(attributes)
      [] callables[k].body = "turn_on" -> turn_on(attributes)
      [] callables[k].body = "smash" -> smash(attributes)
      [] callables[k].body = "mark" -> [attributes EXCEPT !.indicator = callables[k].state]
      [] OTHER -> attributes

(***************************************************************************)
(* FiniteStateMachine.transition, one step per callable it invokes.        *)
(***************************************************************************)
Failures == {"InvalidState", "InvalidTransition", "GuardContract", "GuardRejected"}

\* FindTransition, but staying in the current state is taken to be allowed
\* whenever the current state has a row
FindTransition_SelfAllowed(table, current, to) ==
    IF current \notin DOMAIN table
    THEN [error |-> "InvalidState", transition |-> <<>>]
    ELSE IF to \in DOMAIN table[current]
    THEN [error |-> "none", transition |-> table[current][to]]
    ELSE IF to = current
    THEN LET own == table[current][CHOOSE e \in DOMAIN table[current] : TRUE].beginning_state
         IN  [error |-> "none",
              transition |-> [beginning_state |-> own, end_state |-> own]]
    ELSE [error |-> "InvalidTransition", transition |-> <<>>]

\* FindTransition, but one chained lookup: a missing row and a missing
\* entry are told apart no more
FindTransition_OneLookup(table, current, to) ==
    IF current \notin DOMAIN table \/ to \notin DOMAIN table[current]
    THEN [error |-> "InvalidTransition", transition |-> <<>>]
    ELSE [error |-> "none", transition |-> table[current][to]]

\* FindTransition, but an entry the row lacks is looked for in the other
\* direction, from the desired end state to the current state
FindTransition_Backwards(table, current, to) ==
    IF current \notin DOMAIN table
    THEN [error |-> "InvalidState", transition |-> <<>>]
    ELSE IF to \in DOMAIN table[current]
    THEN [error |-> "none", transition |-> table[current][to]]
    ELSE IF to \in DOMAIN table /\ current \in DOMAIN table[to]
    THEN [error |-> "none",
          transition |-> [beginning_state |-> table[to][current].end_state,
                          end_state |-> table[to][current].beginning_state]]
    ELSE [error |-> "InvalidTransition", transition |-> <<>>]

\* FindTransition, but a current state without a row is let through
FindTransition_NoRowCheck(table, current, to) ==
    IF current \notin DOMAIN table
    THEN [error |-> "none",
          transition |-> [beginning_state |-> EmptyStateRecord,
                          end_state |-> EmptyStateRecord]]
    ELSE IF to \notin DOMAIN table[current]
    THEN [error |-> "InvalidTransition", transition |-> <<>>]
    ELSE [error |-> "none", transition |-> table[current][to]]

\* the two lookups that open transition(): the row of the current state,
\* then the entry of the desired end state
FindTransition(table, current, to) ==
    IF current \notin DOMAIN table
    THEN [error |-> "InvalidState", transition |-> <<>>]
    ELSE IF to \notin DOMAIN table[current]
    THEN [error |-> "InvalidTransition", transition |-> <<>>]
    ELSE [error |-> "none", transition |-> table[current][to]]

\* GuardVerdict, but a guard that says False is not heeded
GuardVerdict_FalseIgnored(allowed) ==
    IF ~allowed.isbool THEN "GuardContract" ELSE "pass"

\* GuardVerdict, but by truthiness, without the isinstance check
GuardVerdict_Truthiness(allowed) ==
    IF ~allowed.truthy THEN "GuardRejected" ELSE "pass"

\* what transition() makes of the value its guard handed back
GuardVerdict(allowed) ==
    IF ~allowed.isbool THEN "GuardContract"
    ELSE IF ~allowed.truthy THEN "GuardRejected"
    ELSE "pass"

\* a callable was invoked: which role, which callable, with which arguments,
\* what state() showed inside it, and what it handed back
Invoked(what, callable, passed, returned) ==
    [what |-> what, callable |-> callable, passed |-> passed, seen |-> state,
     returned |-> returned, raised |-> FALSE]

\* a callable was invoked and raised
InvokedRaised(what, callable, passed) ==
    [Invoked(what, callable, passed, PyNone) EXCEPT !.raised = TRUE]

\* callable k raises when it is called
Raises(k) == callables[k].body = "raises"

\* the call ended by raising `outcome`
Raised(f, outcome, trace) ==
    [outcome |-> outcome, to |-> f.to, before |-> f.before, trace |-> trace,
     after_failure |-> f.after_failure, returned |-> None, left |-> Unset,
     overlapped |-> f.overlapped,
     triggered_event_description |-> f.triggered_event_description,
     transition_tailored_arguments |-> f.transition_tailored_arguments]

\* Returned, but the new state is handed back
Returned_NewState(f) ==
    [outcome |-> "ok", to |-> f.to, before |-> f.before, trace |-> f.trace,
     after_failure |-> f.after_failure, returned |-> f.to, left |-> state,
     overlapped |-> f.overlapped,
     triggered_event_description |-> f.triggered_event_description,
     transition_tailored_arguments |-> f.transition_tailored_arguments]

\* the call ran to its last line, which overwrote the state `left`; the
\* method has no return statement
Returned(f) ==
    [outcome |-> "ok", to |-> f.to, before |-> f.before, trace |-> f.trace,
     after_failure |-> f.after_failure, returned |-> None, left |-> state,
     overlapped |-> f.overlapped,
     triggered_event_description |-> f.triggered_event_description,
     transition_tailored_arguments |-> f.transition_tailored_arguments]

\* the frames without the i-th
RemoveAt(fs, i) == SubSeq(fs, 1, i - 1) \o SubSeq(fs, i + 1, Len(fs))

\* the locals of a call that has found its transition
Frame(to, event, args, transition) ==
    [to |-> to, triggered_event_description |-> event,
     transition_tailored_arguments |-> args, before |-> __state__,
     transition |-> transition, pc |-> "guard", trace |-> <<>>,
     after_failure |-> last.outcome \in Failures, overlapped |-> frames # <<>>]

\* Lookup, but the guard of the desired end state is asked before the
\* lookups are made
Lookup_GuardFirst(to, event, args) ==
    LET found == FindTransition(__fsm_transition_table__, __state__, to)
        f == Frame(to, event, args, found.transition)
        into == {b \in DOMAIN __fsm_transition_table__ :
                    /\ to \in DOMAIN __fsm_transition_table__[b]
                    /\ __fsm_transition_table__[b][to].end_state.guard # NoCallable}
        asked == IF into = {} THEN <<>>
                 ELSE <<Invoked("guard",
                                __fsm_transition_table__[CHOOSE b \in into : TRUE][to]
                                    .end_state.guard,
                                <<args>>, PyTrue)>>
    IN  IF found.error # "none"
        THEN /\ last' = Raised(f, found.error, asked)
             /\ frames' = frames
        ELSE /\ frames' = Append([k \in DOMAIN frames |->
                                    [frames[k] EXCEPT !.overlapped = TRUE]], f)
             /\ last' = NoCall

\* lines 225-231 of a call transition(to, event, args): it raises, or it
\* becomes one more call in flight
Lookup(to, event, args) ==
    LET found == FindTransition(__fsm_transition_table__, __state__, to)
        f == Frame(to, event, args, found.transition)
    IN  IF found.error # "none"
        THEN /\ last' = Raised(f, found.error, <<>>)
             /\ frames' = frames
        ELSE /\ frames' = Append([k \in DOMAIN frames |->
                                    [frames[k] EXCEPT !.overlapped = TRUE]], f)
             /\ last' = NoCall

\* TransitionLookup, but the new state is stored as soon as the transition
\* is found
TransitionLookup_CommitsEarly(to) ==
    /\ machine = "constructed"
    /\ frames = <<>>
    /\ Lookup(to, None, None)
    /\ __state__' = IF frames' = <<>> THEN __state__ ELSE to
    /\ UNCHANGED <<definition, instance, attributes>>

\* transition(to=...) is called with no event and no arguments, while no
\* other call is in flight, and looks the transition up
TransitionLookup(to) ==
    /\ machine = "constructed"
    /\ frames = <<>>
    /\ Lookup(to, None, None)
    /\ UNCHANGED <<definition, instance, attributes, __state__>>

\* GuardOfCall, but the guard is read from the state the call leaves
GuardOfCall_Origin(f) == f.transition.beginning_state.guard

\* the guard a call consults: the one of its end state
GuardOfCall(f) == f.transition.end_state.guard

\* the guard of the end state, if it has one, is asked
TransitionGuard(i) ==
    /\ i \in DOMAIN frames
    /\ frames[i].pc = "guard"
    /\ LET f == frames[i]
           guard == GuardOfCall(f)
       IN  IF guard = NoCallable
           THEN /\ frames' = [frames EXCEPT ![i].pc = "on_exit"]
                /\ last' = last
           ELSE IF Raises(guard)
           THEN /\ frames' = RemoveAt(frames, i)
                /\ last' = Raised(f, "CallableRaised",
                                  Append(f.trace,
                                         InvokedRaised("guard", guard,
                                                       <<f.transition_tailored_arguments>>)))
           ELSE \E allowed \in AskGuard(guard) :
                  LET trace == Append(f.trace,
                                      Invoked("guard", guard,
                                              <<f.transition_tailored_arguments>>, allowed))
                  IN  IF GuardVerdict(allowed) = "pass"
                      THEN /\ frames' = [frames EXCEPT ![i].pc = "on_exit",
                                                       ![i].trace = trace]
                           /\ last' = last
                      ELSE /\ frames' = RemoveAt(frames, i)
                           /\ last' = Raised(f, GuardVerdict(allowed), trace)
    /\ UNCHANGED <<definition, instance, attributes, __state__>>

\* action k calls transition() on its own machine: always, or the first time
\* it runs only (it keeps a flag in self.indicator)
CallsBack(k) ==
    \/ callables[k].body = "calls"
    \/ callables[k].body = "calls_once" /\ attributes.indicator = Unset

\* where a call stands while its action in the role `what` has called
\* transition() and waits for it
Waiting(what) == IF what = "on_exit" THEN "in_on_exit" ELSE "in_on_entry"

\* the action frame i has invoked calls self.transition(to=...) for some
\* state: the lookups of the inner call are made on the current state, and
\* the inner call raises there or is in flight above the waiting outer call
CallFromAction(i, what, action) ==
    /\ Len(frames) < MaxCalls
    /\ \E to \in StateNames :
          LET found == FindTransition(__fsm_transition_table__, __state__, to)
              inner == Frame(to, None, None, found.transition)
              waiting == [frames EXCEPT ![i].pc = Waiting(what), ![i].overlapped = TRUE]
          IN  /\ attributes' = IF callables[action].body = "calls_once"
                                THEN [attributes EXCEPT !.indicator = "called"]
                                ELSE attributes
              /\ IF found.error # "none"
                 THEN /\ frames' = waiting
                      /\ last' = Raised(inner, found.error, <<>>)
                 ELSE /\ frames' = Append(waiting, inner)
                      /\ last' = NoCall

\* InvokeAction, but the engine swallows what an action raises and goes on
InvokeAction_Swallows(i, what, action, next_pc) ==
    LET f == frames[i]
        passed == <<f.triggered_event_description, f.transition_tailored_arguments>>
    IN  /\ last' = last
        /\ IF action = NoCallable
           THEN /\ frames' = [frames EXCEPT ![i].pc = next_pc]
                /\ attributes' = attributes
           ELSE /\ frames' = [frames EXCEPT
                                ![i].pc = next_pc,
                                ![i].trace =
                                   Append(f.trace,
                                          IF Raises(action)
                                          THEN InvokedRaised(what, action, passed)
                                          ELSE Invoked(what, action, passed, PyNone))]
                /\ attributes' = RunAction(action)

\* frame i invokes `action` in the role `what`, if there is one, and goes on
\* to next_pc; what the action raises ends the call there
InvokeAction(i, what, action, next_pc) ==
    LET f == frames[i]
        passed == <<f.triggered_event_description, f.transition_tailored_arguments>>
    IN  IF action = NoCallable
        THEN /\ frames' = [frames EXCEPT ![i].pc = next_pc]
             /\ attributes' = attributes
             /\ last' = last
        ELSE IF Raises(action)
        THEN /\ frames' = RemoveAt(frames, i)
             /\ attributes' = attributes
             /\ last' = Raised(f, "CallableRaised",
                               Append(f.trace, InvokedRaised(what, action, passed)))
        ELSE IF CallsBack(action)
        THEN CallFromAction(i, what, action)
        ELSE /\ frames' = [frames EXCEPT
                             ![i].pc = next_pc,
                             ![i].trace = Append(f.trace, Invoked(what, action, passed, PyNone))]
             /\ attributes' = RunAction(action)
             /\ last' = last

\* TransitionOnExit, but the on_exit action is read from the end state
TransitionOnExit_EndState(i) ==
    /\ i \in DOMAIN frames
    /\ frames[i].pc = "on_exit"
    /\ InvokeAction(i, "on_exit", frames[i].transition.end_state.on_exit, "on_entry")
    /\ UNCHANGED <<definition, instance, __state__>>

\* the on_exit action of the beginning state, if it has one, runs
TransitionOnExit(i) ==
    /\ i \in DOMAIN frames
    /\ frames[i].pc = "on_exit"
    /\ InvokeAction(i, "on_exit", frames[i].transition.beginning_state.on_exit, "on_entry")
    /\ UNCHANGED <<definition, instance, __state__>>

\* TransitionOnEntry, but the new state is stored before the action runs
TransitionOnEntry_CommitFirst(i) ==
    /\ i \in DOMAIN frames
    /\ frames[i].pc = "on_entry"
    /\ __state__' = frames[i].to
    /\ LET f == frames[i]
           on_entry == f.transition.end_state.on_entry
       IN  /\ frames' = [frames EXCEPT
                          ![i].pc = "commit",
                          ![i].trace =
                             IF on_entry = NoCallable THEN f.trace
                             ELSE Append(f.trace,
                                         [Invoked("on_entry", on_entry, <<None, None>>, PyNone)
                                            EXCEPT !.seen = f.to])]
           /\ attributes' = IF on_entry = NoCallable THEN attributes ELSE RunAction(on_entry)
    /\ UNCHANGED <<definition, instance, last>>

\* the on_entry action of the end state, if it has one, runs
TransitionOnEntry(i) ==
    /\ i \in DOMAIN frames
    /\ frames[i].pc = "on_entry"
    /\ InvokeAction(i, "on_entry", frames[i].transition.end_state.on_entry, "commit")
    /\ UNCHANGED <<definition, instance, __state__>>

\* TransitionResume, but the action catches what the inner call raised and
\* returns
TransitionResume_Swallows(i) ==
    /\ i \in DOMAIN frames
    /\ i = Len(frames)
    /\ frames[i].pc \in {"in_on_exit", "in_on_entry"}
    /\ LET f == frames[i]
           what == IF f.pc = "in_on_exit" THEN "on_exit" ELSE "on_entry"
           action == IF what = "on_exit" THEN f.transition.beginning_state.on_exit
                     ELSE f.transition.end_state.on_entry
           passed == <<f.triggered_event_description, f.transition_tailored_arguments>>
           entered == [Invoked(what, action, passed, PyNone) EXCEPT !.seen = last.before]
       IN  /\ frames' = [frames EXCEPT
                            ![i].pc = IF what = "on_exit" THEN "on_entry" ELSE "commit",
                            ![i].trace = Append(f.trace, entered)]
           /\ last' = last
    /\ UNCHANGED <<definition, instance, attributes, __state__>>

\* the inner call an action made is over, and the action gets control back:
\* it returns if the inner call returned, and what the inner call raised
\* leaves the action and the outer call with it
TransitionResume(i) ==
    /\ i \in DOMAIN frames
    /\ i = Len(frames)
    /\ frames[i].pc \in {"in_on_exit", "in_on_entry"}
    /\ LET f == frames[i]
           what == IF f.pc = "in_on_exit" THEN "on_exit" ELSE "on_entry"
           action == IF what = "on_exit" THEN f.transition.beginning_state.on_exit
                     ELSE f.transition.end_state.on_entry
           passed == <<f.triggered_event_description, f.transition_tailored_arguments>>
           entered == [Invoked(what, action, passed, PyNone) EXCEPT !.seen = last.before]
       IN  IF last.outcome = "ok"
           THEN /\ frames' = [frames EXCEPT
                                ![i].pc = IF what = "on_exit" THEN "on_entry" ELSE "commit",
                                ![i].trace = Append(f.trace, entered)]
                /\ last' = last
           ELSE /\ frames' = RemoveAt(frames, i)
                /\ last' = Raised(f, last.outcome,
                                  Append(f.trace, [entered EXCEPT !.raised = TRUE]))
    /\ UNCHANGED <<definition, instance, attributes, __state__>>

\* self.__state__ = to
TransitionCommit(i) ==
    /\ i \in DOMAIN frames
    /\ frames[i].pc = "commit"
    /\ __state__' = frames[i].to
    /\ frames' = RemoveAt(frames, i)
    /\ last' = Returned(frames[i])
    /\ UNCHANGED <<definition, instance, attributes>>

(***************************************************************************)
(* One caller at a time, callables that return and do not call back into   *)
(* the machine: the use section 5 of the specification prescribes.         *)
(***************************************************************************)
Next ==
    \/ __init__
    \/ \E to \in AllNames : TransitionLookup(to)
    \/ TransitionGuard(1)
    \/ TransitionOnExit(1)
    \/ TransitionOnEntry(1)
    \/ TransitionCommit(1)

Spec == Init /\ [][Next]_vars

(***************************************************************************)
(* What the properties below speak of.                                     *)
(***************************************************************************)
\* (origin, destination) is a pair of the transitions list
Declared(origin, destination) == <<origin, destination>> \in Range(transitions)

\* origin is the begin state of some declared transition
HasOutgoing(origin) == \E k \in DOMAIN transitions : transitions[k][1] = origin

\* the states the transitions list names
Endpoints == {transitions[k][1] : k \in DOMAIN transitions}
                \cup {transitions[k][2] : k \in DOMAIN transitions}

\* the callables the definition declares for state s, by role
GuardsOf(s) == {k \in DOMAIN callables : callables[k].kind = "guard" /\ callables[k].state = s}
OnEntryOf(s) ==
    {k \in DOMAIN callables :
        callables[k].kind = "action" /\ callables[k].state = s /\ callables[k].on_entry}
OnExitOf(s) ==
    {k \in DOMAIN callables :
        callables[k].kind = "action" /\ callables[k].state = s /\ callables[k].on_exit}

\* every way construction raises FiniteStateMachineError
ConfigurationErrors ==
    {"NoTransitions", "UndeclaredActionState", "DuplicateOnEntry", "DuplicateOnExit",
     "UndeclaredGuardState", "DuplicateGuard"}

\* a transition() call has returned or raised and none is in flight
Completed == frames = <<>> /\ last.outcome # "none"

\* the entries of a trace in one role
Entries(trace, what) == SelectSeq(trace, LAMBDA e : e.what = what)

\* the actions of a trace, guards left out
ActionsOf(trace) == SelectSeq(trace, LAMBDA e : e.what # "guard")

\* the guard of the completed call was asked and handed back v
GuardReturned(v) ==
    \E k \in DOMAIN last.trace : last.trace[k].what = "guard" /\ last.trace[k].returned = v

\* the actions a transition from origin to destination is to run, in order
ExpectedActions(origin, destination) ==
    (IF OnExitOf(origin) = {} THEN <<>> ELSE <<"on_exit">>)
        \o (IF OnEntryOf(destination) = {} THEN <<>> ELSE <<"on_entry">>)

\* the completed call ran exactly the expected actions: the on_exit action
\* declared for its origin, then the on_entry action declared for its destination
RanExpectedActions ==
    LET ran == ActionsOf(last.trace)
    IN  /\ [k \in DOMAIN ran |-> ran[k].what] = ExpectedActions(last.before, last.to)
        /\ \A k \in DOMAIN ran :
              ran[k].callable \in (IF ran[k].what = "on_exit" THEN OnExitOf(last.before)
                                   ELSE OnEntryOf(last.to))

(***************************************************************************)
(* C1: on a declared transition whose destination has a guard, a guard     *)
(* that returns False makes transition() fail with the guard-declined      *)
(* error, leaves state() at the origin, and neither the on_exit action of  *)
(* the origin nor the on_entry action of the destination is invoked.       *)
(***************************************************************************)
C1_GuardDenial ==
    (/\ Completed
     /\ Declared(last.before, last.to)
     /\ GuardsOf(last.to) # {}
     /\ GuardReturned(PyFalse))
    => /\ last.outcome = "GuardRejected"
       /\ state = last.before
       /\ ActionsOf(last.trace) = <<>>

\* a guard said False where the origin has an on_exit action and the
\* destination an on_entry action
C1_Witness ==
    /\ Completed
    /\ Declared(last.before, last.to)
    /\ GuardReturned(PyFalse)
    /\ last.outcome = "GuardRejected"
    /\ OnExitOf(last.before) # {}
    /\ OnEntryOf(last.to) # {}

(***************************************************************************)
(* C2: on a declared transition requested in its origin, when the guard of *)
(* the destination returns True or the destination has no guard, state()   *)
(* becomes the destination, the on_entry action of the destination (if     *)
(* any) is invoked exactly once, and the on_exit action of the origin (if  *)
(* any) exactly once and before it.                                        *)
(***************************************************************************)
C2_Success ==
    (/\ Completed
     /\ Declared(last.before, last.to)
     /\ (GuardsOf(last.to) = {} \/ GuardReturned(PyTrue)))
    => /\ last.outcome = "ok"
       /\ state = last.to
       /\ RanExpectedActions

\* a guarded transition between two states went through and ran an action
C2_Witness ==
    /\ Completed
    /\ last.outcome = "ok"
    /\ last.before # last.to
    /\ GuardReturned(PyTrue)
    /\ ActionsOf(last.trace) # <<>>

(***************************************************************************)
(* C3, as claimed: for every pair (origin, destination) that is not in     *)
(* transitions, transition(to=destination) called in origin fails with the *)
(* "transition from X to Y is invalid" error and leaves state() unchanged, *)
(* also when origin has no outgoing transition at all.  Stated for origins  *)
(* and destinations that the transitions list names.                       *)
(***************************************************************************)
C3_AsClaimed ==
    (/\ Completed
     /\ ~Declared(last.before, last.to)
     /\ last.before \in Endpoints
     /\ last.to \in Endpoints)
    => /\ last.outcome = "InvalidTransition"
       /\ state = last.before

(***************************************************************************)
(* C3, amended: for every pair (origin, destination) that is not in        *)
(* transitions and whose origin is the begin state of some declared        *)
(* transition, transition(to=destination) called in origin fails with the  *)
(* "transition from X to Y is invalid" error, leaves state() unchanged and *)
(* invokes no callable.                                                    *)
(***************************************************************************)
C3_InvalidTransition ==
    (Completed /\ ~Declared(last.before, last.to) /\ HasOutgoing(last.before))
    => /\ last.outcome = "InvalidTransition"
       /\ state = last.before
       /\ last.trace = <<>>

\* a destination the transitions list names, but not from this state, was
\* asked for in a state that has outgoing transitions
C3_Witness ==
    /\ Completed
    /\ ~Declared(last.before, last.to)
    /\ HasOutgoing(last.before)
    /\ last.outcome = "InvalidTransition"
    /\ last.to \in Endpoints

(***************************************************************************)
(* C4: in a state that is the begin state of no declared transition every  *)
(* transition() call, whatever its destination, fails with the "state is   *)
(* invalid, or we have entered a terminal state" error and leaves state()  *)
(* unchanged: once entered, such a state is never left.                    *)
(***************************************************************************)
TerminalStays ==
    (machine = "constructed" /\ ~HasOutgoing(state))
    => /\ state' = state
       /\ frames' = <<>>
       /\ last' # last => /\ last'.outcome = "InvalidState"
                          /\ last'.before = state
                          /\ last'.trace = <<>>

C4_TerminalState == [][TerminalStays]_vars

\* a call failed in a terminal state that an earlier transition had entered
C4_Witness ==
    /\ Completed
    /\ last.outcome = "InvalidState"
    /\ ~HasOutgoing(state)
    /\ state \in Endpoints
    /\ state # initial_state
    /\ last.to \in Endpoints

(***************************************************************************)
(* C5: a transition() call that fails with the invalid-state, the          *)
(* invalid-transition, the guard-contract or the guard-declined error      *)
(* leaves state() and the table as they were before the call, and the next *)
(* call to a declared destination whose guard accepts (or that has no      *)
(* guard) goes through: the new state is the destination and the actions   *)
(* of the transition run.                                                  *)
(***************************************************************************)
C5_ErrorsNotFatal ==
    /\ (Completed /\ last.outcome \in Failures)
       => /\ state = last.before
          /\ machine = "constructed"
          /\ __fsm_transition_table__ =
                __create_lookup_table__(transitions, callables).lookup_table
    /\ (/\ Completed
        /\ last.after_failure
        /\ Declared(last.before, last.to)
        /\ (GuardsOf(last.to) = {} \/ GuardReturned(PyTrue)))
       => /\ last.outcome = "ok"
          /\ state = last.to
          /\ RanExpectedActions

\* a guarded transition went through right after a failed call
C5_Witness ==
    /\ Completed
    /\ last.after_failure
    /\ last.outcome = "ok"
    /\ last.before # last.to
    /\ GuardReturned(PyTrue)

(***************************************************************************)
(* C6: on every machine whose construction went through, state() called    *)
(* before any transition() call returns the declared initial_state.        *)
(***************************************************************************)
\* no transition() call was made yet
NoCallYet == frames = <<>> /\ last = NoCall

C6_InitialState ==
    (machine = "constructed" /\ NoCallYet) => state = initial_state

\* a fresh machine whose initial state is not the first state its
\* transitions list names
C6_Witness ==
    /\ machine = "constructed"
    /\ NoCallYet
    /\ initial_state \in Endpoints
    /\ initial_state # transitions[1][1]

(***************************************************************************)
(* C7: when the callables bind two on_entry actions, or two on_exit        *)
(* actions, or two guards to one state, construction fails with a          *)
(* configuration error and leaves no instance to call transition() on; so  *)
(* every constructed machine has at most one on_entry action, one on_exit  *)
(* action and one guard per state.                                         *)
(***************************************************************************)
\* some state is given two callables in one role
BindsTwice ==
    \E s \in AllNames :
        \/ Cardinality(OnEntryOf(s)) > 1
        \/ Cardinality(OnExitOf(s)) > 1
        \/ Cardinality(GuardsOf(s)) > 1

\* construction raised: nothing of the instance was set and nothing ran on it
NoInstance ==
    /\ machine = "failed"
    /\ __fsm_transition_table__ = <<>>
    /\ __state__ = Unset
    /\ NoCallYet

C7_OneBindingPerRole ==
    /\ (machine # "declared" /\ BindsTwice)
       => (NoInstance /\ error \in ConfigurationErrors)
    /\ machine = "constructed"
       => \A s \in AllNames :
            /\ Cardinality(OnEntryOf(s)) <= 1
            /\ Cardinality(OnExitOf(s)) <= 1
            /\ Cardinality(GuardsOf(s)) <= 1

\* construction failed over the second guard of a state
C7_Witness ==
    /\ machine = "failed"
    /\ error = "DuplicateGuard"
    /\ \E s \in Endpoints : Cardinality(GuardsOf(s)) > 1

(***************************************************************************)
(* C8: when an action or a guard names a state that is an endpoint of no   *)
(* declared transition, construction fails with a configuration error,     *)
(* whatever the on_entry and on_exit flags of the callable are.            *)
(***************************************************************************)
C8_UndeclaredState ==
    (machine # "declared" /\ \E k \in DOMAIN callables : callables[k].state \notin Endpoints)
    => (NoInstance /\ error \in ConfigurationErrors)

\* construction failed over an action that holds neither role
C8_Witness ==
    /\ machine = "failed"
    /\ error = "UndeclaredActionState"
    /\ \A k \in DOMAIN callables :
          /\ callables[k].kind = "action"
          /\ ~callables[k].on_entry
          /\ ~callables[k].on_exit

(***************************************************************************)
(* C9: within one transition() call the order is guard, on_exit action,    *)
(* on_entry action, commit: the guard is invoked before any action, the    *)
(* on_exit action before the on_entry action, and the current state is set *)
(* to the destination only after the on_entry action has returned, so      *)
(* state() read inside the guard or either action still equals the origin. *)
(***************************************************************************)
Rank(what) == CASE what = "guard" -> 1 [] what = "on_exit" -> 2 [] what = "on_entry" -> 3

\* the trace of a call from `origin` respects the order, and every callable
\* saw the origin as the current state
InOrder(trace, origin) ==
    /\ \A j, k \in DOMAIN trace : j < k => Rank(trace[j].what) < Rank(trace[k].what)
    /\ \A k \in DOMAIN trace : trace[k].seen = origin

C9_Order ==
    /\ \A i \in DOMAIN frames :
          /\ InOrder(frames[i].trace, frames[i].before)
          /\ state = frames[i].before
    /\ Completed => InOrder(last.trace, last.before)

\* a transition between two states went through and ran both of its actions
C9_Witness ==
    /\ Completed
    /\ last.outcome = "ok"
    /\ last.before # last.to
    /\ state = last.to
    /\ Entries(last.trace, "on_exit") # <<>>
    /\ Entries(last.trace, "on_entry") # <<>>

(***************************************************************************)
(* C10: when the guard of the destination returns a value that is not a    *)
(* bool, transition() fails with the "A guard must only return True or     *)
(* False values" error, never with the guard-declined error and never by   *)
(* taking the value as truthy or falsy; state() is unchanged and no        *)
(* on_exit or on_entry action is invoked.                                  *)
(***************************************************************************)
\* the guard of the completed call handed back a value that is no bool
GuardReturnedNonBool ==
    \E k \in DOMAIN last.trace :
        last.trace[k].what = "guard" /\ ~last.trace[k].returned.isbool

C10_GuardContract ==
    (Completed /\ GuardReturnedNonBool)
    => /\ last.outcome = "GuardContract"
       /\ state = last.before
       /\ ActionsOf(last.trace) = <<>>

\* a guard handed back a truthy value that is no bool, on a transition
\* between two states whose destination has an on_entry action
C10_Witness ==
    /\ Completed
    /\ GuardReturned([isbool |-> FALSE, truthy |-> TRUE])
    /\ last.outcome = "GuardContract"
    /\ last.before # last.to
    /\ OnEntryOf(last.to) # {}
(***************************************************************************)
(* The light bulb of the test suite: AbstractLightBulb and LightBulb.      *)
(***************************************************************************)
LightBulbStates == {"off", "on", "broken"}

\* AbstractLightBulb.transitions
LightBulbTransitions ==
    <<<<"off", "on">>, <<"on", "off">>, <<"off", "broken">>, <<"on", "broken">>>>

\* the decorated methods of LightBulb, in the order dir() lists them
LightBulbCallables ==
    <<[kind |-> "guard", state |-> "on", on_entry |-> FALSE, on_exit |-> FALSE,
       body |-> "check_electricity"],
      [kind |-> "action", state |-> "broken", on_entry |-> TRUE, on_exit |-> FALSE,
       body |-> "smash"],
      [kind |-> "action", state |-> "off", on_entry |-> TRUE, on_exit |-> FALSE,
       body |-> "turn_off"],
      [kind |-> "action", state |-> "on", on_entry |-> TRUE, on_exit |-> FALSE,
       body |-> "turn_on"]>>

\* a LightBulb class, and the electricity flag the test sets on the bulb
\* before its first call (nothing in __init__ reads it)
InitLightBulb ==
    /\ declared = {"initial_state", "transitions"}
    /\ transitions = LightBulbTransitions
    /\ initial_state = "off"
    /\ callables = LightBulbCallables
    /\ attributes \in [electricity : {Unset, "True", "False"}, indicator : {Unset}]
    /\ NotConstructed

NextLightBulb ==
    \/ __init__
    \/ \E to \in LightBulbStates : TransitionLookup(to)
    \/ TransitionGuard(1)
    \/ TransitionOnExit(1)
    \/ TransitionOnEntry(1)
    \/ TransitionCommit(1)

SpecLightBulb == InitLightBulb /\ [][NextLightBulb]_vars

\* the call transition(to) made in the state `before` has completed
Called(before, to) == Completed /\ last.before = before /\ last.to = to

\* how a completed call ended, and what the bulb shows
Shows(outcome, st, indicator) ==
    /\ last.outcome = outcome
    /\ state = st
    /\ attributes.indicator = indicator

(***************************************************************************)
(* C11: the light bulb.  With electricity true, transition(to=on) from off *)
(* gives state on and indicator lit, transition(to=off) from on gives off  *)
(* and dim, transition(to=broken) gives broken and broken, and any call in *)
(* broken fails with the invalid-state error and leaves state and          *)
(* indicator broken.  With electricity unset or false, transition(to=on)   *)
(* from off fails with the guard-rejected error, the state stays off, and  *)
(* between calls a bulb that is off has an indicator that was never set.   *)
(***************************************************************************)
C11_LightBulb ==
    /\ (Called("off", "on") /\ attributes.electricity = "True") => Shows("ok", "on", "lit")
    /\ Called("on", "off") => Shows("ok", "off", "dim")
    /\ (Called("off", "broken") \/ Called("on", "broken")) => Shows("ok", "broken", "broken")
    /\ (Completed /\ last.before = "broken") => Shows("InvalidState", "broken", "broken")
    /\ (Called("off", "on") /\ attributes.electricity # "True")
          => Shows("GuardRejected", "off", Unset)
    /\ (machine = "constructed" /\ frames = <<>> /\ attributes.electricity # "True"
            /\ state = "off")
          => attributes.indicator = Unset
    /\ machine # "failed"

\* a bulb that was lit and then smashed refuses to be turned on
C11_Witness ==
    /\ Called("broken", "on")
    /\ attributes.electricity = "True"
    /\ last.outcome = "InvalidState"
    /\ last.after_failure = FALSE

\* a bulb without electricity refused to be turned on
C11_WitnessNoElectricity ==
    /\ Called("off", "on")
    /\ attributes.electricity = Unset
    /\ last.outcome = "GuardRejected"

(***************************************************************************)
(* C12, as claimed: a successful transition(to=X) returns X, which is also *)
(* state() right after the call.                                           *)
(***************************************************************************)
C12_AsClaimed ==
    (Completed /\ last.outcome = "ok")
    => /\ last.returned = last.to
       /\ last.returned = state

(***************************************************************************)
(* C12: a successful transition(to=X) returns None; the new state is read  *)
(* with state(), which is X right after the call.                          *)
(***************************************************************************)
C12_ReturnsNone ==
    (Completed /\ last.outcome = "ok")
    => /\ last.returned = None
       /\ state = last.to

\* a call that changed the state has returned
C12_Witness ==
    /\ Completed
    /\ last.outcome = "ok"
    /\ last.returned = None
    /\ last.left # state

(***************************************************************************)
(* Classes that may leave out a class attribute the engine reads: a        *)
(* subclass of FiniteStateMachine with no decorated method, with or        *)
(* without a transitions list and an initial_state.                        *)
(***************************************************************************)
InitAnyClass ==
    /\ declared \in SUBSET {"initial_state", "transitions"}
    /\ transitions \in IF "transitions" \in declared
                       THEN SeqUpTo(StateNames \X StateNames, MaxTransitions)
                       ELSE {<<>>}
    /\ initial_state \in IF "initial_state" \in declared THEN AllNames ELSE {Unset}
    /\ callables = <<>>
    /\ attributes = NoAttributes
    /\ NotConstructed

SpecAnyClass == InitAnyClass /\ [][Next]_vars

(***************************************************************************)
(* C13, as claimed: constructing a machine whose transitions list is empty *)
(* or whose class declares no transitions attribute fails with a           *)
(* configuration error, and no machine is produced.                        *)
(***************************************************************************)
C13_AsClaimed ==
    (machine # "declared" /\ ("transitions" \notin declared \/ transitions = <<>>))
    => /\ error \in ConfigurationErrors
       /\ NoInstance

(***************************************************************************)
(* C14, as claimed: in every constructed machine initial_state is an       *)
(* endpoint of some declared transition, and so is state() in every        *)
(* reachable state.                                                        *)
(***************************************************************************)
C14_AsClaimed ==
    machine = "constructed"
    => /\ initial_state \in Endpoints
       /\ state \in Endpoints

(***************************************************************************)
(* C14: construction does not check initial_state.  When initial_state is  *)
(* an endpoint of some declared transition, state() is one in every        *)
(* reachable state; when it is not, the machine is constructed all the     *)
(* same, state() stays initial_state, and every transition() call fails    *)
(* with the invalid-state error before any callable runs.                  *)
(***************************************************************************)
C14_InitialStateUnchecked ==
    machine = "constructed"
    => IF initial_state \in Endpoints
       THEN state \in Endpoints
       ELSE /\ state = initial_state
            /\ frames = <<>>
            /\ last.outcome \in {"none", "InvalidState"}
            /\ last.trace = <<>>

\* a machine that starts outside its transitions has refused a call to one
\* of its declared states
C14_Witness ==
    /\ machine = "constructed"
    /\ initial_state \notin Endpoints
    /\ Completed
    /\ last.to \in Endpoints
    /\ last.outcome = "InvalidState"

(***************************************************************************)
(* Callers that do not serialize: a second thread may call transition()    *)
(* while a call is in flight, and the calls' steps interleave.  Each call  *)
(* reads self.__state__ once, at its lookup, and writes it at its last     *)
(* line.                                                                   *)
(***************************************************************************)
\* on_entry actions that leave a mark
EntryMarks ==
    {c \in CallablesWith(StateNames, {"mark"}) :
        c.kind = "action" /\ c.on_entry /\ ~c.on_exit}

InitConcurrent ==
    /\ declared = {"initial_state", "transitions"}
    /\ transitions \in SeqUpTo(StateNames \X StateNames, MaxTransitions)
    /\ initial_state \in StateNames
    /\ callables \in SeqUpTo(EntryMarks, 1)
    /\ attributes = NoAttributes
    /\ NotConstructed

\* transition(to=...) is called, whether or not other calls are in flight
TransitionLookupUnserialized(to) ==
    /\ machine = "constructed"
    /\ Len(frames) < MaxCalls
    /\ Lookup(to, None, None)
    /\ UNCHANGED <<definition, instance, attributes, __state__>>

NextConcurrent ==
    \/ __init__
    \/ \E to \in StateNames : TransitionLookupUnserialized(to)
    \/ \E i \in 1..MaxCalls : TransitionGuard(i)
    \/ \E i \in 1..MaxCalls : TransitionOnExit(i)
    \/ \E i \in 1..MaxCalls : TransitionOnEntry(i)
    \/ \E i \in 1..MaxCalls : TransitionCommit(i)

SpecConcurrent == InitConcurrent /\ [][NextConcurrent]_vars

(***************************************************************************)
(* C15: lookup and commit are not atomic.  A call that returned took a     *)
(* transition declared from the state it read; the state its commit        *)
(* overwrote can be another one, from which its destination is not a       *)
(* declared transition, but only when another call was in flight during    *)
(* it.  A call that ran with no other call in flight overwrote the state   *)
(* it read.                                                                *)
(***************************************************************************)
C15_NotAtomic ==
    last.outcome = "ok"
    => /\ Declared(last.before, last.to)
       /\ ~Declared(last.left, last.to) => last.overlapped
       /\ ~last.overlapped => last.left = last.before

\* two calls read the same state; the first has committed a, and the second
\* has just committed b although (a, b) is not a declared transition
C15_Witness ==
    /\ last.outcome = "ok"
    /\ last.overlapped
    /\ last.left # last.before
    /\ ~Declared(last.left, last.to)
    /\ state = last.to
    /\ frames = <<>>

(***************************************************************************)
(* Callables that may raise: a body either raises as soon as it is called  *)
(* or, in an action, leaves a mark in self.indicator and returns.          *)
(***************************************************************************)
InitRaising ==
    /\ declared = {"initial_state", "transitions"}
    /\ transitions \in SeqUpTo(StateNames \X StateNames, MaxTransitions)
    /\ initial_state \in StateNames
    /\ callables \in SeqUpTo(BoundCallablesWith(StateNames, {"mark", "raises"}), MaxCallables)
    /\ attributes = NoAttributes
    /\ NotConstructed

SpecRaising == InitRaising /\ [][Next]_vars

\* the roles of the actions a trace holds, in order
RolesOf(trace) == [k \in DOMAIN ActionsOf(trace) |-> ActionsOf(trace)[k].what]

\* the actions a call from origin to destination has invoked by the time the
\* callable in the role `what` raises
ExpectedUpTo(origin, destination, what) ==
    CASE what = "guard" -> <<>>
      [] what = "on_exit" -> <<"on_exit">>
      [] what = "on_entry" -> ExpectedActions(origin, destination)

\* the actions of a trace that returned after leaving their mark
MarksOf(trace) ==
    SelectSeq(trace, LAMBDA e : e.what # "guard" /\ ~e.raised
                                  /\ callables[e.callable].body = "mark")

(***************************************************************************)
(* C16: when a guard, an on_exit action or an on_entry action raises, the  *)
(* call ends there with that exception: no callable is invoked after it,   *)
(* those before it in the order guard, on_exit, on_entry were invoked,     *)
(* state() still equals the origin, and the mark an action left before the *)
(* raise is still there.  A call in which nothing raised does not end with *)
(* that exception.                                                         *)
(***************************************************************************)
C16_RaisingCallable ==
    /\ \A i \in DOMAIN frames : \A k \in DOMAIN frames[i].trace : ~frames[i].trace[k].raised
    /\ Completed =>
         LET t == last.trace
             raised == t # <<>> /\ t[Len(t)].raised
         IN  /\ \A k \in DOMAIN t : t[k].raised => k = Len(t)
             /\ (last.outcome = "CallableRaised") <=> raised
             /\ raised =>
                  /\ state = last.before
                  /\ InOrder(t, last.before)
                  /\ RolesOf(t) = ExpectedUpTo(last.before, last.to, t[Len(t)].what)
             /\ MarksOf(t) # <<>> =>
                  attributes.indicator = callables[MarksOf(t)[Len(MarksOf(t))].callable].state

\* the on_entry action raised after the on_exit action had left its mark,
\* on a transition between two states
C16_Witness ==
    /\ Completed
    /\ last.outcome = "CallableRaised"
    /\ last.before # last.to
    /\ state = last.before
    /\ Len(last.trace) = 2
    /\ last.trace[1].what = "on_exit"
    /\ callables[last.trace[1].callable].body = "mark"
    /\ last.trace[2].what = "on_entry"
    /\ last.trace[2].raised
    /\ attributes.indicator = last.before

(***************************************************************************)
(* Callers that say what triggered the transition and hand over arguments  *)
(* for the callables.                                                      *)
(***************************************************************************)
\* what a caller may pass as triggered_event_description
Events == {None, "turn on"}

\* what a caller may pass as transition_tailored_arguments
Arguments == {None, "{}"}

InitArguments ==
    /\ declared = {"initial_state", "transitions"}
    /\ transitions \in SeqUpTo(StateNames \X StateNames, MaxTransitions)
    /\ initial_state \in StateNames
    /\ callables \in SeqUpTo(BoundCallablesWith(StateNames, {"any"}), MaxCallables)
    /\ attributes = NoAttributes
    /\ NotConstructed

\* transition(to, triggered_event_description, transition_tailored_arguments)
\* is called while no other call is in flight
TransitionCall(to, event, args) ==
    /\ machine = "constructed"
    /\ frames = <<>>
    /\ Lookup(to, event, args)
    /\ UNCHANGED <<definition, instance, attributes, __state__>>

NextArguments ==
    \/ __init__
    \/ \E to \in StateNames, event \in Events, args \in Arguments :
          TransitionCall(to, event, args)
    \/ TransitionGuard(1)
    \/ TransitionOnExit(1)
    \/ TransitionOnEntry(1)
    \/ TransitionCommit(1)

SpecArguments == InitArguments /\ [][NextArguments]_vars

\* in the trace of call c, every guard entry is the one guard bound to the
\* destination of c, asked along a declared transition with c's arguments
GuardsAskedFor(c) ==
    /\ Len(Entries(c.trace, "guard")) <= 1
    /\ \A k \in DOMAIN c.trace :
          c.trace[k].what = "guard" =>
              /\ GuardsOf(c.to) = {c.trace[k].callable}
              /\ Declared(c.before, c.to)
              /\ c.trace[k].passed = <<c.transition_tailored_arguments>>

(***************************************************************************)
(* C17: a transition() call asks at most one guard, the guard bound to its *)
(* destination, only along a declared transition, and with the caller's    *)
(* transition_tailored_arguments as the only argument; the guard of the    *)
(* state the call leaves is not asked, unless that state is the            *)
(* destination too.  A call that found its transition and whose            *)
(* destination has a guard did ask it.                                     *)
(***************************************************************************)
C17_GuardOfDestination ==
    /\ \A i \in DOMAIN frames : GuardsAskedFor(frames[i])
    /\ Completed =>
          /\ GuardsAskedFor(last)
          /\ (last.outcome \notin {"InvalidState", "InvalidTransition"}
                /\ GuardsOf(last.to) # {})
             => Len(Entries(last.trace, "guard")) = 1

\* a call left a guarded state for another guarded state with arguments, and
\* asked the guard of its destination only
C17_Witness ==
    /\ Completed
    /\ last.outcome = "ok"
    /\ last.before # last.to
    /\ GuardsOf(last.before) # {}
    /\ GuardsOf(last.to) # {}
    /\ last.transition_tailored_arguments # None
    /\ last.triggered_event_description # None
    /\ Len(last.trace) = 1
    /\ last.trace[1].what = "guard"
    /\ callables[last.trace[1].callable].state = last.to

(***************************************************************************)
(* C18: a call made in a state that has no outgoing transition, or for a   *)
(* destination that is not declared from the current state, fails before   *)
(* any callable runs: no guard, no on_exit action and no on_entry action   *)
(* is invoked, even when the destination has a guard or an on_entry action *)
(* bound, and state() is unchanged.                                        *)
(***************************************************************************)
C18_FailsBeforeCallables ==
    (Completed /\ (~HasOutgoing(last.before) \/ ~Declared(last.before, last.to)))
    => /\ last.outcome \in {"InvalidState", "InvalidTransition"}
       /\ last.trace = <<>>
       /\ state = last.before

\* a call for a destination that has a guard and an on_entry action, neither
\* of which ran, because the destination is not declared from the current state
C18_Witness ==
    /\ Completed
    /\ last.outcome = "InvalidTransition"
    /\ GuardsOf(last.to) # {}
    /\ OnEntryOf(last.to) # {}
    /\ last.trace = <<>>

\* the states one declared transition away from the states S
Successors(S) == {transitions[k][2] : k \in {j \in DOMAIN transitions : transitions[j][1] \in S}}

\* the states the declared transitions lead to from the states S, S included
RECURSIVE ReachableFrom(_)
ReachableFrom(S) == IF Successors(S) \subseteq S THEN S ELSE ReachableFrom(S \cup Successors(S))

\* a step that changes the current state is the construction, which sets it
\* to initial_state, or the last line of a call, which sets it to the
\* destination the call asked for, along a declared transition
ChangesAlongDeclared ==
    __state__' # __state__ =>
        \/ /\ machine = "declared"
           /\ __state__' = initial_state
        \/ /\ machine = "constructed"
           /\ frames # <<>>
           /\ frames[1].pc = "commit"
           /\ frames' = <<>>
           /\ __state__' = frames[1].to
           /\ Declared(__state__, __state__')

\* a call that failed left the state alone; one that returned moved it from
\* the state it was made in to its destination, along a declared transition
CallMovedAlongDeclared ==
    Completed =>
        IF last.outcome = "ok"
        THEN state = last.to /\ Declared(last.before, state)
        ELSE state = last.before

(***************************************************************************)
(* C19: with one caller at a time and callables that do not call back, the *)
(* current state changes only at the last line of transition(), from the   *)
(* state the call was made in to the destination it asked for, and only    *)
(* when that pair is a declared transition; a call that fails leaves the   *)
(* state as it was.  So state() is always initial_state or a state the     *)
(* declared transitions lead to from it.                                   *)
(***************************************************************************)
C19_DeclaredEdgesOnly ==
    /\ [][ChangesAlongDeclared]_vars
    /\ [](CallMovedAlongDeclared)
    /\ [](machine = "constructed" => state \in ReachableFrom({initial_state}))

\* a second call moved the machine on from a state other than its initial
\* state, after a call had failed
C19_Witness ==
    /\ Completed
    /\ last.outcome = "ok"
    /\ last.before # initial_state
    /\ last.before # last.to
    /\ last.after_failure
    /\ state \in ReachableFrom({initial_state})

\* the callable a set of at most one binding holds, or none
TheOne(S) == IF S = {} THEN NoCallable ELSE CHOOSE k \in S : TRUE

\* the record of state s, read off the declarations: its on_entry action,
\* its on_exit action and its guard, or nothing in their place
RecordOf(s) ==
    [on_entry |-> TheOne(OnEntryOf(s)), on_exit |-> TheOne(OnExitOf(s)),
     guard |-> TheOne(GuardsOf(s))]

\* the first n pairs of a transitions list, each pair kept once
RECURSIVE Once(_, _)
Once(trans, n) ==
    IF n = 0 THEN <<>>
    ELSE IF trans[n] \in Range(Once(trans, n - 1)) THEN Once(trans, n - 1)
    ELSE Append(Once(trans, n - 1), trans[n])

(***************************************************************************)
(* C20: the table of a constructed machine has an entry for (origin,       *)
(* destination) exactly when that pair occurs in transitions; the entry    *)
(* holds the record of the origin as beginning_state and the record of the *)
(* destination as end_state, each with the on_entry action, on_exit action *)
(* and guard declared for that state or nothing; and the table is the one  *)
(* the same list builds with every pair declared once.                     *)
(***************************************************************************)
C20_TransitionTable ==
    machine = "constructed"
    => /\ \A o, d \in AllNames :
             (o \in DOMAIN __fsm_transition_table__
                /\ d \in DOMAIN __fsm_transition_table__[o]) <=> Declared(o, d)
       /\ \A k \in DOMAIN transitions :
             LET entry == __fsm_transition_table__[transitions[k][1]][transitions[k][2]]
             IN  /\ entry.beginning_state = RecordOf(transitions[k][1])
                 /\ entry.end_state = RecordOf(transitions[k][2])
       /\ __fsm_transition_table__
             = __create_lookup_table__(Once(transitions, Len(transitions)),
                                       callables).lookup_table

\* a machine built from a list that declares one pair twice, between two
\* states that have an action each
C20_Witness ==
    /\ machine = "constructed"
    /\ Len(transitions) = 2
    /\ transitions[1] = transitions[2]
    /\ transitions[1][1] # transitions[1][2]
    /\ OnExitOf(transitions[1][1]) # {}
    /\ OnEntryOf(transitions[1][2]) # {}
    /\ DOMAIN __fsm_transition_table__ = {transitions[1][1]}

\* a machine built from two transitions that leave the same state
C20_WitnessTwoFromOne ==
    /\ machine = "constructed"
    /\ Len(transitions) = 2
    /\ transitions[1][1] = transitions[2][1]
    /\ transitions[1][2] # transitions[2][2]
    /\ GuardsOf(transitions[2][2]) # {}

(***************************************************************************)
(* The builder alone: a class is defined and FiniteStateMachine() is       *)
(* called on it.                                                           *)
(***************************************************************************)
NextBuilder == __init__

SpecBuilder == Init /\ [][NextBuilder]_vars

\* the state map the builder makes of a transitions list and a list of
\* callables: [error, state_map]
StateMapOf(trans, cs) ==
    LET got == __get_states__(trans)
    IN  IF got.error # "none" THEN [error |-> got.error, state_map |-> <<>>]
        ELSE __create_state_map__(cs, __get_actions__(cs), __get_guards__(cs), got.states)

\* the orders n callables can be listed in
Orders(n) == {p \in [1..n -> 1..n] : \A i, j \in 1..n : p[i] = p[j] => i = j}

\* the callables cs listed in the order p
Reordered(cs, p) == [i \in 1..Len(cs) |-> cs[p[i]]]

\* a state map made of Reordered(cs, p), each binding named by the place its
\* callable has in cs
InPlacesOf(state_map, p) ==
    LET place(k) == IF k = NoCallable THEN NoCallable ELSE p[k]
    IN  [s \in DOMAIN state_map |->
            [on_entry |-> place(state_map[s].on_entry),
             on_exit |-> place(state_map[s].on_exit),
             guard |-> place(state_map[s].guard)]]

(***************************************************************************)
(* C21: the order in which the callables are listed does not matter to the *)
(* builder.  For the transitions and callables of a class on which         *)
(* construction was tried, and for every other order of the same           *)
(* callables, either the builder fails with a configuration error for both *)
(* orders, or it binds the same callables to the same roles of the same    *)
(* states for both; construction succeeded exactly in the second case.     *)
(***************************************************************************)
C21_OrderIrrelevant ==
    machine # "declared" =>
        LET here == StateMapOf(transitions, callables)
        IN  /\ (machine = "constructed") <=> (here.error = "none")
            /\ machine = "failed" => error = here.error /\ error \in ConfigurationErrors
            /\ \A p \in Orders(Len(callables)) :
                  LET there == StateMapOf(transitions, Reordered(callables, p))
                  IN  IF here.error = "none"
                      THEN /\ there.error = "none"
                           /\ InPlacesOf(there.state_map, p) = here.state_map
                      ELSE there.error \in ConfigurationErrors

\* a machine was built from two different callables bound to the same state
C21_Witness ==
    /\ machine = "constructed"
    /\ Len(callables) = 2
    /\ callables[1] # callables[2]
    /\ callables[1].state = callables[2].state
    /\ callables[1].kind = "action"
    /\ callables[2].kind = "action"
    /\ OnEntryOf(callables[1].state) = {1}
    /\ OnExitOf(callables[1].state) = {2}

\* construction failed on two actions that claim the same role of a state
C21_WitnessFailed ==
    /\ machine = "failed"
    /\ Len(callables) = 2
    /\ error = "DuplicateOnEntry"

(***************************************************************************)
(* The decorators.  A class body writes @Action(state=..., on_entry=...,   *)
(* on_exit=...) or @Guard(state=...) over a method; the keyword arguments  *)
(* drawn here are the ones the decorators accept: a state name, and for    *)
(* each flag True, False, or no keyword at all.                            *)
(***************************************************************************)
Unspecified == "unspecified"
Keywords == {Unspecified, "True", "False"}

\* Action, but on_entry is False where the keyword is left out
Action_EntryOffByDefault(state_kw, on_entry, on_exit) ==
    [kind |-> "action", state |-> state_kw,
     on_entry |-> on_entry = "True",
     on_exit |-> IF on_exit = Unspecified THEN FALSE ELSE on_exit = "True",
     body |-> "any"]

\* Action.__call__: the metadata the decorator attaches to the method
Action(state_kw, on_entry, on_exit) ==
    [kind |-> "action", state |-> state_kw,
     on_entry |-> IF on_entry = Unspecified THEN TRUE ELSE on_entry = "True",
     on_exit |-> IF on_exit = Unspecified THEN FALSE ELSE on_exit = "True",
     body |-> "any"]

\* Guard.__call__
Guard(state_kw) ==
    [kind |-> "guard", state |-> state_kw, on_entry |-> FALSE, on_exit |-> FALSE,
     body |-> "any"]

\* the decorated methods a class body can hold
Decorated ==
    {Action(s, e, x) : s \in StateNames, e \in Keywords, x \in Keywords}
        \cup {Guard(s) : s \in StateNames}

InitDecorated ==
    /\ declared = {"initial_state", "transitions"}
    /\ transitions \in SeqUpTo(StateNames \X StateNames, MaxTransitions)
    /\ initial_state \in StateNames
    /\ callables \in SeqUpTo(Decorated, MaxCallables)
    /\ attributes = NoAttributes
    /\ NotConstructed

SpecDecorated == InitDecorated /\ [][Next]_vars

\* the state records the table holds, each with the state it belongs to
RecordsOfTable ==
    UNION {UNION {{<<o, __fsm_transition_table__[o][d].beginning_state>>,
                   <<d, __fsm_transition_table__[o][d].end_state>>} :
                     d \in DOMAIN __fsm_transition_table__[o]} :
              o \in DOMAIN __fsm_transition_table__}

\* callable k holds the role `what` of state s in the table
BoundAs(k, what, s) ==
    \E r \in RecordsOfTable :
        /\ r[1] = s
        /\ (IF what = "on_entry" THEN r[2].on_entry ELSE r[2].on_exit) = k

\* callable k holds the role `what` of no other state than s, and of s in
\* every record of s, exactly when `wanted`
BoundExactly(k, what, s, wanted) ==
    \A r \in RecordsOfTable :
        ((IF what = "on_entry" THEN r[2].on_entry ELSE r[2].on_exit) = k)
            <=> (r[1] = s /\ wanted)

\* in the trace of call c, action k was invoked in the role `what`
InvokedAs(c, k, what) ==
    \E j \in DOMAIN c.trace : c.trace[j].callable = k /\ c.trace[j].what = what

\* action k, declared for state s, ran in call c when it was to: on entering
\* s if `entry`, on leaving s if `exit`, and in no other role or call
RanWhenBound(c, k, s, entry, exit) ==
    /\ InvokedAs(c, k, "on_entry") => (entry /\ c.to = s)
    /\ InvokedAs(c, k, "on_exit") => (exit /\ c.before = s)
    /\ ~InvokedAs(c, k, "guard")

\* the call that returned was to run action k, and did
RanWhereDue(k, s, entry, exit) ==
    /\ (entry /\ last.to = s) => InvokedAs(last, k, "on_entry")
    /\ (exit /\ last.before = s) => InvokedAs(last, k, "on_exit")

\* two actions claim the same role of the same state
RoleClash ==
    \E j, k \in DOMAIN callables :
        /\ j # k
        /\ callables[j].kind = "action"
        /\ callables[k].kind = "action"
        /\ callables[j].state = callables[k].state
        /\ \/ callables[j].on_entry /\ callables[k].on_entry
           \/ callables[j].on_exit /\ callables[k].on_exit

(***************************************************************************)
(* C22: on_entry defaults to True and on_exit to False, and one action may *)
(* hold both roles of its state.  For every action of a constructed        *)
(* machine and every way of writing its decorator: it is the on_entry      *)
(* action of its state exactly when on_entry is True or left out, and the  *)
(* on_exit action of its state exactly when on_exit is True; it is invoked *)
(* on entering its state in the first case, on leaving it in the second,   *)
(* and at no other time; with both flags False it is bound to nothing and  *)
(* never invoked.  An action that holds both roles causes no construction  *)
(* error: the one-action-per-role errors are raised only when two          *)
(* different actions claim the same role of a state.                       *)
(***************************************************************************)
C22_Defaults ==
    /\ (machine = "failed" /\ error \in {"DuplicateOnEntry", "DuplicateOnExit"}) => RoleClash
    /\ machine = "constructed" =>
         \A k \in DOMAIN callables : \A e, x \in Keywords :
            LET s == callables[k].state
                entry == e # "False"
                exit == x = "True"
            IN  callables[k] = Action(s, e, x) =>
                  /\ BoundExactly(k, "on_entry", s, entry)
                  /\ BoundExactly(k, "on_exit", s, exit)
                  /\ \A i \in DOMAIN frames : RanWhenBound(frames[i], k, s, entry, exit)
                  /\ Completed => RanWhenBound(last, k, s, entry, exit)
                  /\ (Completed /\ last.outcome = "ok") => RanWhereDue(k, s, entry, exit)

\* an action declared with on_exit=True and no on_entry keyword ran on
\* leaving its state and again on entering it, in a call from that state to
\* itself
C22_Witness ==
    /\ Completed
    /\ last.outcome = "ok"
    /\ last.before = last.to
    /\ Len(last.trace) = 2
    /\ last.trace[1].callable = last.trace[2].callable
    /\ last.trace[1].what = "on_exit"
    /\ last.trace[2].what = "on_entry"
    /\ callables[last.trace[1].callable] = Action(last.to, Unspecified, "True")

\* an action declared with a state only ran on entering its state and not
\* on leaving it
C22_WitnessStateOnly ==
    /\ Completed
    /\ last.outcome = "ok"
    /\ last.before = last.to
    /\ Len(callables) = 1
    /\ callables[1] = Action(last.to, Unspecified, Unspecified)
    /\ Len(last.trace) = 1
    /\ last.trace[1].what = "on_entry"

\* an action with both flags False is bound to nothing
C22_WitnessNoRole ==
    /\ Completed
    /\ last.outcome = "ok"
    /\ Len(callables) = 1
    /\ callables[1] = Action(last.to, "False", "False")
    /\ last.trace = <<>>

(***************************************************************************)
(* Actions that call back: the body of an on_exit or on_entry action calls *)
(* self.transition(to=...) on the machine that is running it.  The inner   *)
(* call runs to its end on the same Python stack before the action gets    *)
(* control back, so only the innermost call takes steps.                   *)
(***************************************************************************)
InitReentrant ==
    /\ declared = {"initial_state", "transitions"}
    /\ transitions \in SeqUpTo(StateNames \X StateNames, MaxTransitions)
    /\ initial_state \in StateNames
    /\ callables \in SeqUpTo({c \in BoundCallablesWith(StateNames, {"calls", "calls_once"}) :
                                 c.kind = "action"}, MaxCallables)
    /\ attributes = NoAttributes
    /\ NotConstructed

NextReentrant ==
    \/ __init__
    \/ \E to \in StateNames : TransitionLookup(to)
    \/ TransitionGuard(Len(frames))
    \/ TransitionOnExit(Len(frames))
    \/ TransitionOnEntry(Len(frames))
    \/ TransitionResume(Len(frames))
    \/ TransitionCommit(Len(frames))

SpecReentrant == InitReentrant /\ [][NextReentrant]_vars

\* the innermost call is an outer call whose action waits for an inner call
\* that is over
InnerCallOver ==
    /\ frames # <<>>
    /\ frames[Len(frames)].pc \in {"in_on_exit", "in_on_entry"}

\* the action that made the innermost of the inner calls in flight
CallerOf(i) ==
    IF frames[i - 1].pc = "in_on_exit"
    THEN frames[i - 1].transition.beginning_state.on_exit
    ELSE frames[i - 1].transition.end_state.on_entry

C23_WitnessInnerRefused ==
    /\ InnerCallOver
    /\ frames[Len(frames)].pc = "in_on_entry"
    /\ last.outcome = "InvalidTransition"
    /\ last.before = frames[Len(frames)].before
    /\ Declared(frames[Len(frames)].to, last.to)

=============================================================================
